---- MODULE Spec2Model ----
(***************************************************************************)
(* State-machine model of the GPT-OSS browser MCP server                   *)
(* (src/src/mcp_server.rs): the JSON-RPC dispatcher, the process-wide      *)
(* session store SESSIONS and the three tools search / open / find.        *)
(*                                                                         *)
(* Every region of a handler that runs without an await and without        *)
(* releasing a lock is one atomic step.  execute_open is the only handler  *)
(* that touches the store on both sides of an await: it is split into      *)
(* execute_open_start (snapshot under the read lock), the fetch            *)
(* (fetch_page_content) and execute_open_finish (write lock, pagination).  *)
(***************************************************************************)
EXTENDS Integers, Sequences, FiniteSets, Bags, TLC

(***************************************************************************)
(* Bounds of the model                                                     *)
(***************************************************************************)
\* usize is modelled WordBits wide (the code runs with 64): wrap-around of
\* loc + num_lines as usize happens the same way at every width.
WordBits == 4
\* fetches the Content Fetcher serves per (session, url)
MaxFetch == 2
\* opens that may be in flight at once in the session-store specification
MaxInflight == 2
\* largest loc / num_lines magnitude drawn in the pagination specification
MaxLoc == 3
\* longest page, in lines, of the enumerated pages of the find specification
MaxFindLines == 5

RECURSIVE Pow2(_)
Pow2(n) == IF n = 0 THEN 1 ELSE 2 * Pow2(n - 1)
UsizeMod == Pow2(WordBits)

(***************************************************************************)
(* Option<T>: None is the empty sequence, Some(x) the one-element sequence *)
(***************************************************************************)
None == << >>
Some(x) == << x >>

(***************************************************************************)
(* serde_json::Value, as far as the handlers look into it                  *)
(***************************************************************************)
JAbsent == [t |-> "absent"]
JStr(s) == [t |-> "str", s |-> s]
JInt(n) == [t |-> "int", i |-> n]
\* a JSON value that is neither a string nor an integer (true, 1.5, [..])
JOther == [t |-> "other"]

as_str(v) == IF v.t = "str" THEN Some(v.s) ELSE None
\* every integer of the model fits 64 bits; a negative one is no u64
as_u64(v) == IF v.t = "int" /\ v.i >= 0 THEN Some(v.i) ELSE None
as_i64(v) == IF v.t = "int" THEN Some(v.i) ELSE None
unwrap_or(o, d) == IF o = None THEN d ELSE o[1]

\* the arguments object of tools/call; a key that is not there is JAbsent
Args(url, loc, num_lines, query, topn, pattern) ==
    [url |-> url, loc |-> loc, num_lines |-> num_lines,
     query |-> query, topn |-> topn, pattern |-> pattern]
NoArgs == Args(JAbsent, JAbsent, JAbsent, JAbsent, JAbsent, JAbsent)
\* the params object; arguments is None when the key is not there
Params(name, arguments, sessionId) ==
    [t |-> "obj", name |-> name, arguments |-> arguments, sessionId |-> sessionId]
\* a request payload: raw is "empty", "malformed" (not JSON) or "json" (an object)
Body(raw, jsonrpc, id, method, params) ==
    [raw |-> raw, jsonrpc |-> jsonrpc, id |-> id, method |-> method, params |-> params]
EmptyBody == Body("empty", JAbsent, JAbsent, JAbsent, JAbsent)
MalformedBody == Body("malformed", JAbsent, JAbsent, JAbsent, JAbsent)
Envelope(jsonrpc, id, method, params) == Body("json", jsonrpc, id, method, params)

(***************************************************************************)
(* Text: a String is a sequence of one-character strings                   *)
(***************************************************************************)
NL == "\n"
Blank == <<" ">>

\* str::trim().is_empty()
trim_is_empty(s) == \A i \in 1..Len(s) : s[i] \in {" ", NL}

\* str::lines(): split at every "\n"; a final line terminator opens no line
RECURSIVE lines_from(_, _, _)
lines_from(s, i, cur) ==
    IF i > Len(s) THEN (IF cur = << >> /\ (i = 1 \/ s[i - 1] = NL) THEN << >> ELSE << cur >>)
    ELSE IF s[i] = NL THEN << cur >> \o lines_from(s, i + 1, << >>)
    ELSE lines_from(s, i + 1, Append(cur, s[i]))
lines(s) == lines_from(s, 1, << >>)

\* char::len_utf8 over the alphabet of the model: the ASCII characters take
\* one byte, "é" takes two
len_utf8(c) == IF c = "é" THEN 2 ELSE 1
\* String::len(): the length in bytes
RECURSIVE str_len(_)
str_len(s) == IF s = << >> THEN 0 ELSE len_utf8(Head(s)) + str_len(Tail(s))

min(a, b) == IF a <= b THEN a ELSE b
max(a, b) == IF a >= b THEN a ELSE b
saturating_sub(a, b) == IF a >= b THEN a - b ELSE 0

(***************************************************************************)
(* HashMap                                                                 *)
(***************************************************************************)
EmptyMap == [k \in {} |-> k]
get(m, k) == IF k \in DOMAIN m THEN Some(m[k]) ELSE None
insert(m, k, v) == [x \in (DOMAIN m) \cup {k} |-> IF x = k THEN v ELSE m[x]]
remove(m, k) == [x \in (DOMAIN m) \ {k} |-> m[x]]

(***************************************************************************)
(* Result<T, String>; a panic of the handling task is a third outcome      *)
(***************************************************************************)
Ok(v) == [r |-> "ok", v |-> v]
Err(e) == [r |-> "err", e |-> e]
Panic(why) == [r |-> "panic", why |-> why]

(***************************************************************************)
(* The data model                                                          *)
(***************************************************************************)
\* impl Default for BrowserSession
BrowserSession_default == [current_url |-> None, current_content |-> None, pages |-> EmptyMap]

\* the tool registry TOOLS
TOOLS == {"search", "open", "find"}

create_success_response(id, result) ==
    [id |-> id, result |-> Some(result), error |-> None]
create_error_response(id, code, message, data) ==
    [id |-> id, result |-> None,
     error |-> Some([code |-> code, message |-> message, data |-> data])]

\* the session id of a request: the Mcp-Session-Id header, or "default"
DefaultId == <<"d", "e", "f", "a", "u", "l", "t">>
UnknownId == <<"u", "n", "k", "n", "o", "w", "n">>
header_session_id(h) == unwrap_or(h, DefaultId)

(***************************************************************************)
(* execute_search                                                          *)
(***************************************************************************)
\* arguments.get("topn").and_then(as_u64).unwrap_or(10).min(50).max(1)
search_topn(arguments) == max(min(unwrap_or(as_u64(arguments.topn), 10), 50), 1)

\* net is what the Search Provider does: Err("network") (send fails),
\* Err("status") (non-success status) or Ok(n), a page holding n results
execute_search(arguments, net) ==
    LET query == as_str(arguments.query) IN
    IF query = None THEN Err([msg |-> "MissingParameter", name |-> "query"])
    ELSE IF trim_is_empty(query[1]) THEN Err([msg |-> "EmptyQuery"])
    ELSE LET topn == search_topn(arguments) IN
         IF net.r = "err" THEN Err([msg |-> net.e, limit |-> topn])
         ELSE IF min(net.v, topn) = 0 THEN Ok([text |-> "NoResults", limit |-> topn])
         ELSE Ok([text |-> "SearchResults", limit |-> topn, count |-> min(net.v, topn)])

(***************************************************************************)
(* execute_open                                                            *)
(***************************************************************************)
\* the arguments without the cache lookup: every open goes on with a fetch
execute_open_start_no_cache(arguments, session_id, store) ==
    LET url == as_str(arguments.url) IN
    IF url = None THEN [done |-> TRUE, res |-> Err([msg |-> "MissingParameter", name |-> "url"])]
    ELSE IF trim_is_empty(url[1]) THEN [done |-> TRUE, res |-> Err([msg |-> "UrlRequired"])]
    ELSE [done |-> FALSE, url |-> url[1],
          loc |-> unwrap_or(as_u64(arguments.loc), 0) % UsizeMod,
          num_lines |-> unwrap_or(as_i64(arguments.num_lines), -1),
          content |-> None]

\* an open whose cache is shared by the sessions: the page any session holds
\* for the url is a hit
execute_open_start_any_session(arguments, session_id, store) ==
    LET url == as_str(arguments.url) IN
    IF url = None THEN [done |-> TRUE, res |-> Err([msg |-> "MissingParameter", name |-> "url"])]
    ELSE IF trim_is_empty(url[1]) THEN [done |-> TRUE, res |-> Err([msg |-> "UrlRequired"])]
    ELSE LET loc == unwrap_or(as_u64(arguments.loc), 0) % UsizeMod
             num_lines == unwrap_or(as_i64(arguments.num_lines), -1)
             holders == {s \in DOMAIN store : url[1] \in DOMAIN store[s].pages}
             cached == IF holders = {} THEN None
                       ELSE Some(store[CHOOSE s \in holders : TRUE].pages[url[1]])
         IN [done |-> FALSE, url |-> url[1], loc |-> loc, num_lines |-> num_lines,
             content |-> cached]

\* lines 577-610: the arguments and the cache snapshot, up to the first await.
\* Either the call is over (done, with its error) or it goes on with the
\* cached content (content = Some) or with a fetch (content = None).
execute_open_start(arguments, session_id, store) ==
    LET url == as_str(arguments.url) IN
    IF url = None THEN [done |-> TRUE, res |-> Err([msg |-> "MissingParameter", name |-> "url"])]
    ELSE IF trim_is_empty(url[1]) THEN [done |-> TRUE, res |-> Err([msg |-> "UrlRequired"])]
    ELSE LET loc == unwrap_or(as_u64(arguments.loc), 0) % UsizeMod
             num_lines == unwrap_or(as_i64(arguments.num_lines), -1)
             session_data == get(store, session_id)
             cached == IF session_data = None THEN None
                       ELSE get(session_data[1].pages, url[1])
         IN [done |-> FALSE, url |-> url[1], loc |-> loc, num_lines |-> num_lines,
             content |-> cached]

\* the write without the insert into pages
open_update_session_no_insert(store, session_id, url, content) ==
    LET session == unwrap_or(get(store, session_id), BrowserSession_default) IN
    insert(store, session_id,
           [current_url |-> Some(url),
            current_content |-> Some(content),
            pages |-> session.pages])

\* the write of an open that leaves the current page of an existing session
\* as it was and only caches the page
open_update_session_keep_current(store, session_id, url, content) ==
    LET session == unwrap_or(get(store, session_id), BrowserSession_default) IN
    insert(store, session_id,
           [current_url |-> IF session_id \in DOMAIN store THEN session.current_url ELSE Some(url),
            current_content |-> IF session_id \in DOMAIN store THEN session.current_content
                                ELSE Some(content),
            pages |-> insert(session.pages, url, content)])

\* the write of an open that keeps the page an earlier write cached for the
\* url (entry(url).or_insert) instead of replacing it
open_update_session_first_wins(store, session_id, url, content) ==
    LET session == unwrap_or(get(store, session_id), BrowserSession_default)
        kept == unwrap_or(get(session.pages, url), content)
    IN insert(store, session_id,
              [current_url |-> Some(url),
               current_content |-> Some(kept),
               pages |-> insert(session.pages, url, kept)])

\* lines 612-619: the write under the write lock
open_update_session(store, session_id, url, content) ==
    LET session == unwrap_or(get(store, session_id), BrowserSession_default) IN
    insert(store, session_id,
           [current_url |-> Some(url),
            current_content |-> Some(content),
            pages |-> insert(session.pages, url, content)])

\* line 635: loc + num_lines as usize; the addition panics on overflow in a
\* build with overflow checks and wraps in one without
open_end_loc(loc, num_lines, total_lines, build) ==
    IF num_lines = -1 THEN Ok(total_lines)
    ELSE LET as_usize == num_lines % UsizeMod
             sum == loc + as_usize
         IN IF sum >= UsizeMod
            THEN (IF build = "debug" THEN Panic("overflow")
                  ELSE Ok(min(sum - UsizeMod, total_lines)))
            ELSE Ok(min(sum, total_lines))

\* lines 621-659: pagination of the resolved content
open_paginate(url, content, loc, num_lines, build) ==
    LET ls == lines(content)
        total_lines == Len(ls)
    IN IF loc >= total_lines
       THEN Err([msg |-> "InvalidLocation", loc |-> loc, maximum |-> saturating_sub(total_lines, 1)])
       ELSE LET e == open_end_loc(loc, num_lines, total_lines, build) IN
            IF e.r = "panic" THEN e
            ELSE IF e.v < loc THEN Panic("slice")
            ELSE LET end_loc == e.v IN
                 Ok([text |-> "Page", url |-> url, from |-> loc,
                     shown |-> [i \in 1..(end_loc - loc) |-> [n |-> loc + (i - 1), line |-> ls[loc + i]]],
                     notice |-> IF end_loc < total_lines
                                THEN Some([at |-> saturating_sub(end_loc, 1),
                                           of |-> saturating_sub(total_lines, 1)])
                                ELSE None,
                     total |-> total_lines])

\* fetch_page_content: page is what the web serves, an error name or Ok(text)
fetch_page_content(url, page) ==
    IF page.r = "err" THEN Err([msg |-> page.e, url |-> url]) ELSE page

(***************************************************************************)
(* execute_find                                                            *)
(***************************************************************************)
\* char::to_lowercase over the alphabet of the model
lower_char(c) ==
    IF c = "F" THEN "f" ELSE IF c = "O" THEN "o" ELSE IF c = "Α" THEN "α"
    ELSE IF c = "Σ" THEN "σ" ELSE c
\* the letters of the model: every character but the blank and the line feed
is_cased(c) == c \notin {" ", NL}
\* str::to_lowercase: character by character, except that a capital sigma at
\* the end of a word (after a letter, not before one) becomes the final sigma
to_lowercase(s) ==
    [i \in 1..Len(s) |->
        IF s[i] = "Σ" /\ i > 1 /\ is_cased(s[i - 1]) /\ ~(i < Len(s) /\ is_cased(s[i + 1]))
        THEN "ς" ELSE lower_char(s[i])]
\* str::contains
contains(hay, needle) ==
    \E k \in 0..(Len(hay) - Len(needle)) :
        \A j \in 1..Len(needle) : hay[k + j] = needle[j]

\* lines 696-721: the content to search in, read under the read lock
find_select(arguments, session_id, store) ==
    LET url_arg == as_str(arguments.url)
        session == get(store, session_id)
    IN IF url_arg # None
       THEN IF session # None
            THEN LET page_content == get(session[1].pages, url_arg[1]) IN
                 IF page_content # None
                 THEN Ok([content |-> page_content[1], url |-> url_arg[1]])
                 ELSE Err([msg |-> "PageNotFound", url |-> url_arg[1]])
            ELSE Err([msg |-> "NoActiveSession"])
       ELSE IF session # None
            THEN IF session[1].current_content # None /\ session[1].current_url # None
                 THEN Ok([content |-> session[1].current_content[1],
                          url |-> session[1].current_url[1]])
                 ELSE Err([msg |-> "NoPageOpen"])
            ELSE Err([msg |-> "NoActiveSession"])

\* lines 730-750: one entry per matching line, with its context window;
\* line numbers are 0-based, ls is indexed from 1
find_context(ls, line_num) ==
    LET start_line == saturating_sub(line_num, 2)
        end_line == min(line_num + 3, Len(ls))
    IN [i \in 1..(end_line - start_line) |->
           [n |-> start_line + (i - 1),
            line |-> ls[start_line + i],
            marked |-> (start_line + (i - 1) = line_num)]]

RECURSIVE find_matches(_, _, _)
find_matches(ls, pattern_lower, line_num) ==
    IF line_num >= Len(ls) THEN << >>
    ELSE (IF contains(to_lowercase(ls[line_num + 1]), pattern_lower)
          THEN << [line_num |-> line_num, context |-> find_context(ls, line_num)] >>
          ELSE << >>)
         \o find_matches(ls, pattern_lower, line_num + 1)

execute_find(arguments, session_id, store) ==
    LET pattern == as_str(arguments.pattern) IN
    IF pattern = None THEN Err([msg |-> "MissingParameter", name |-> "pattern"])
    ELSE IF trim_is_empty(pattern[1]) THEN Err([msg |-> "EmptyPattern"])
    ELSE LET sel == find_select(arguments, session_id, store) IN
         IF sel.r = "err" THEN sel
         ELSE LET matches == find_matches(lines(sel.v.content), to_lowercase(pattern[1]), 0) IN
              IF matches = << >> THEN Ok([text |-> "NoMatches"])
              ELSE Ok([text |-> "Found", url |-> sel.v.url, total |-> Len(matches),
                       shown |-> SubSeq(matches, 1, min(Len(matches), 10)),
                       more |-> IF Len(matches) > 10 THEN Some(Len(matches) - 10) ELSE None])

(***************************************************************************)
(* The dispatcher.  A handler yields what it leaves behind: the response   *)
(* (kind "resp") with the store after it, or, for an open that goes on     *)
(* past its snapshot, the call in flight (kind "await").                   *)
(***************************************************************************)
Done(resp, store) == [kind |-> "resp", resp |-> resp, store |-> store]
Await(st, store) == [kind |-> "await", st |-> st, store |-> store]

\* serde_json::from_slice::<JsonRpcRequest>: jsonrpc and method are String
\* fields (required), id and params are Options
parse_request(body) ==
    IF body.raw # "json" THEN None
    ELSE IF as_str(body.jsonrpc) = None \/ as_str(body.method) = None THEN None
    ELSE Some([jsonrpc |-> body.jsonrpc.s, id |-> body.id,
               method |-> body.method.s, params |-> body.params])

\* lines 433-453: the tool's Result folded into the envelope
tool_response(id, result) ==
    IF result.r = "ok"
    THEN create_success_response(id, [content |-> result.v])
    ELSE create_error_response(id, -32603, "Internal error", result.e)

\* tools/call without the registry test of lines 422-430: a name that is
\* neither search nor find is executed as open
handle_tools_call_no_registry(request, session_id, store, net) ==
    IF request.params = JAbsent
    THEN Done(create_error_response(request.id, -32602, "Invalid params",
                                    [msg |-> "MissingParameters"]), store)
    ELSE LET tool_name == IF request.params.t = "obj" THEN as_str(request.params.name) ELSE None IN
         IF tool_name = None
         THEN Done(create_error_response(request.id, -32602, "Invalid params",
                                         [msg |-> "MissingToolName"]), store)
         ELSE LET arguments == unwrap_or(request.params.arguments, NoArgs) IN
              IF tool_name[1] = "search"
              THEN Done(tool_response(request.id, execute_search(arguments, net)), store)
              ELSE IF tool_name[1] = "find"
              THEN Done(tool_response(request.id, execute_find(arguments, session_id, store)), store)
              ELSE LET st == execute_open_start(arguments, session_id, store) IN
                   IF st.done THEN Done(tool_response(request.id, st.res), store)
                   ELSE Await(st, store)

\* a dispatcher whose find by url makes the page it searched the current page
handle_tools_call_find_sets_current(request, session_id, store, net) ==
    IF request.params = JAbsent
    THEN Done(create_error_response(request.id, -32602, "Invalid params",
                                    [msg |-> "MissingParameters"]), store)
    ELSE LET tool_name == IF request.params.t = "obj" THEN as_str(request.params.name) ELSE None IN
         IF tool_name = None
         THEN Done(create_error_response(request.id, -32602, "Invalid params",
                                         [msg |-> "MissingToolName"]), store)
         ELSE LET arguments == unwrap_or(request.params.arguments, NoArgs) IN
              IF tool_name[1] \notin TOOLS
              THEN Done(create_error_response(request.id, -32601, "Method not found",
                                              [msg |-> "UnknownTool", name |-> tool_name[1]]), store)
              ELSE IF tool_name[1] = "search"
              THEN Done(tool_response(request.id, execute_search(arguments, net)), store)
              ELSE IF tool_name[1] = "find"
              THEN LET sel == find_select(arguments, session_id, store) IN
                   Done(tool_response(request.id, execute_find(arguments, session_id, store)),
                        IF sel.r = "err" THEN store
                        ELSE insert(store, session_id,
                                    [store[session_id] EXCEPT
                                        !.current_url = Some(sel.v.url),
                                        !.current_content = Some(sel.v.content)]))
              ELSE LET st == execute_open_start(arguments, session_id, store) IN
                   IF st.done THEN Done(tool_response(request.id, st.res), store)
                   ELSE Await(st, store)

handle_tools_call(request, session_id, store, net) ==
    IF request.params = JAbsent
    THEN Done(create_error_response(request.id, -32602, "Invalid params",
                                    [msg |-> "MissingParameters"]), store)
    ELSE LET tool_name == IF request.params.t = "obj" THEN as_str(request.params.name) ELSE None IN
         IF tool_name = None
         THEN Done(create_error_response(request.id, -32602, "Invalid params",
                                         [msg |-> "MissingToolName"]), store)
         ELSE LET arguments == unwrap_or(request.params.arguments, NoArgs) IN
              IF tool_name[1] \notin TOOLS
              THEN Done(create_error_response(request.id, -32601, "Method not found",
                                              [msg |-> "UnknownTool", name |-> tool_name[1]]), store)
              ELSE IF tool_name[1] = "search"
              THEN Done(tool_response(request.id, execute_search(arguments, net)), store)
              ELSE IF tool_name[1] = "find"
              THEN Done(tool_response(request.id, execute_find(arguments, session_id, store)), store)
              ELSE LET st == execute_open_start(arguments, session_id, store) IN
                   IF st.done THEN Done(tool_response(request.id, st.res), store)
                   ELSE Await(st, store)

\* session/terminate dropping the whole store instead of the named session
handle_session_terminate_clear(request, store) ==
    LET session_info ==
            IF request.params # JAbsent /\ request.params.t = "obj"
            THEN unwrap_or(as_str(request.params.sessionId), UnknownId)
            ELSE UnknownId
    IN Done(create_success_response(request.id,
                [status |-> "terminated", sessionId |-> session_info]),
            EmptyMap)

handle_session_terminate(request, store) ==
    LET session_info ==
            IF request.params # JAbsent /\ request.params.t = "obj"
            THEN unwrap_or(as_str(request.params.sessionId), UnknownId)
            ELSE UnknownId
    IN Done(create_success_response(request.id,
                [status |-> "terminated", sessionId |-> session_info]),
            remove(store, session_info))

\* the dispatcher routing on the method without the version test of lines 257-265
handle_mcp_request_route_first(header, body, store, net) ==
    LET session_id == header_session_id(header) IN
    IF body.raw = "empty"
    THEN Done(create_error_response(JAbsent, -32600, "Invalid Request",
                                    [msg |-> "EmptyBody"]), store)
    ELSE LET parsed == parse_request(body) IN
         IF parsed = None
         THEN Done(create_error_response(JAbsent, -32700, "Parse error",
                                         [msg |-> "InvalidJson"]), store)
         ELSE LET json_request == parsed[1] IN
              IF json_request.method = "initialize"
              THEN Done(create_success_response(json_request.id, [result |-> "initialize"]), store)
              ELSE IF json_request.method = "tools/list"
              THEN Done(create_success_response(json_request.id, [tools |-> TOOLS]), store)
              ELSE IF json_request.method = "tools/call"
              THEN handle_tools_call(json_request, session_id, store, net)
              ELSE IF json_request.method = "ping"
              THEN Done(create_success_response(json_request.id, [message |-> "pong"]), store)
              ELSE IF json_request.method = "session/terminate"
              THEN handle_session_terminate(json_request, store)
              ELSE IF json_request.method = "notifications/cancelled"
              THEN Done(create_success_response(json_request.id, [status |-> "acknowledged"]), store)
              ELSE Done(create_error_response(json_request.id, -32601, "Method not found",
                            [msg |-> "UnknownMethod", method |-> json_request.method]), store)

\* the dispatcher answering an unrecognized method as it answers a
\* notification instead of with the error of lines 275-283
handle_mcp_request_accept_unknown(header, body, store, net) ==
    LET session_id == header_session_id(header) IN
    IF body.raw = "empty"
    THEN Done(create_error_response(JAbsent, -32600, "Invalid Request",
                                    [msg |-> "EmptyBody"]), store)
    ELSE LET parsed == parse_request(body) IN
         IF parsed = None
         THEN Done(create_error_response(JAbsent, -32700, "Parse error",
                                         [msg |-> "InvalidJson"]), store)
         ELSE LET json_request == parsed[1] IN
              IF json_request.jsonrpc # "2.0"
              THEN Done(create_error_response(json_request.id, -32600, "Invalid Request",
                                              [msg |-> "VersionMustBe2.0"]), store)
              ELSE IF json_request.method = "initialize"
              THEN Done(create_success_response(json_request.id, [result |-> "initialize"]), store)
              ELSE IF json_request.method = "tools/list"
              THEN Done(create_success_response(json_request.id, [tools |-> TOOLS]), store)
              ELSE IF json_request.method = "tools/call"
              THEN handle_tools_call(json_request, session_id, store, net)
              ELSE IF json_request.method = "ping"
              THEN Done(create_success_response(json_request.id, [message |-> "pong"]), store)
              ELSE IF json_request.method = "session/terminate"
              THEN handle_session_terminate(json_request, store)
              ELSE Done(create_success_response(json_request.id, [status |-> "acknowledged"]), store)

handle_mcp_request(header, body, store, net) ==
    LET session_id == header_session_id(header) IN
    IF body.raw = "empty"
    THEN Done(create_error_response(JAbsent, -32600, "Invalid Request",
                                    [msg |-> "EmptyBody"]), store)
    ELSE LET parsed == parse_request(body) IN
         IF parsed = None
         THEN Done(create_error_response(JAbsent, -32700, "Parse error",
                                         [msg |-> "InvalidJson"]), store)
         ELSE LET json_request == parsed[1] IN
              IF json_request.jsonrpc # "2.0"
              THEN Done(create_error_response(json_request.id, -32600, "Invalid Request",
                                              [msg |-> "VersionMustBe2.0"]), store)
              ELSE IF json_request.method = "initialize"
              THEN Done(create_success_response(json_request.id, [result |-> "initialize"]), store)
              ELSE IF json_request.method = "tools/list"
              THEN Done(create_success_response(json_request.id, [tools |-> TOOLS]), store)
              ELSE IF json_request.method = "tools/call"
              THEN handle_tools_call(json_request, session_id, store, net)
              ELSE IF json_request.method = "ping"
              THEN Done(create_success_response(json_request.id, [message |-> "pong"]), store)
              ELSE IF json_request.method = "session/terminate"
              THEN handle_session_terminate(json_request, store)
              ELSE IF json_request.method = "notifications/cancelled"
              THEN Done(create_success_response(json_request.id, [status |-> "acknowledged"]), store)
              ELSE Done(create_error_response(json_request.id, -32601, "Method not found",
                            [msg |-> "UnknownMethod", method |-> json_request.method]), store)

\* the DELETE endpoint: Err(StatusCode::BAD_REQUEST) or the status payload
handle_session_delete(session_id, store) ==
    IF session_id = << >> \/ str_len(session_id) > 100
    THEN [status |-> 400, store |-> store]
    ELSE [status |-> 200, store |-> remove(store, session_id)]

(***************************************************************************)
(* State                                                                   *)
(***************************************************************************)
VARIABLES
    sessions,     \* SESSIONS: session id -> BrowserSession
    inflight,     \* the execute_open calls between their snapshot and their write (a bag)
    fetchCount,   \* <<session id, url>> -> invocations of the Content Fetcher (history)
    firstStored,  \* <<session id, url>> -> the content the first open stored since the
                  \* session was created (history)
    terminated,   \* the session ids a termination has removed from the store (history)
    last          \* the request completed last, with its outcome

vars == <<sessions, inflight, fetchCount, firstStored, terminated, last>>

count(k) == IF k \in DOMAIN fetchCount THEN fetchCount[k] ELSE 0

\* what a completed request leaves in last: op is "post" (the tool endpoint) or
\* "delete"; status is the transport status, 0 when the handling task panicked
\* and no response was written; cached / fetched / content describe an open:
\* the page the store held for its url when it took its snapshot (None when
\* it held none), whether it invoked the Content Fetcher, and the content it
\* resolved (None when the fetch failed)
Completed(op, sid, body, status, resp, cached, fetched, content) ==
    [op |-> op, sid |-> sid, body |-> body, status |-> status, resp |-> resp,
     cached |-> cached, fetched |-> fetched, content |-> content]

Init ==
    /\ sessions = EmptyMap
    /\ inflight = EmptyBag
    /\ fetchCount = EmptyMap
    /\ firstStored = EmptyMap
    /\ terminated = {}
    /\ last = Completed("none", None, EmptyBody, 0, None, None, FALSE, None)

\* the history kept for the sessions of store, after removed were terminated
forget(m, removed) == [k \in {x \in DOMAIN m : x[1] \notin removed} |-> m[k]]

(***************************************************************************)
(* Actions                                                                 *)
(***************************************************************************)
\* a server that keeps the store locked from an open's snapshot to its write:
\* no request is handled while an open awaits the Content Fetcher
Handled_exclusive(header, body, o, cap) ==
    LET sid == header_session_id(header)
    IN /\ \A r \in BagToSet(inflight) : r.content # None
       /\ IF o.kind = "resp"
          THEN LET removed == (DOMAIN sessions) \ (DOMAIN o.store) IN
               /\ sessions' = o.store
               /\ terminated' = terminated \cup removed
               /\ firstStored' = forget(firstStored, removed)
               /\ last' = Completed("post", Some(sid), body, 200, Some(o.resp), None, FALSE, None)
               /\ UNCHANGED <<inflight, fetchCount>>
          ELSE LET k == <<sid, o.st.url>>
                   fetches == (o.st.content = None)
               IN /\ BagCardinality(inflight) < cap
                  /\ fetches => count(k) < MaxFetch
                  /\ inflight' = inflight (+) SetToBag({
                        [sid |-> sid, body |-> body, url |-> o.st.url, loc |-> o.st.loc,
                         num_lines |-> o.st.num_lines, content |-> o.st.content,
                         cached |-> IF sid \in DOMAIN sessions
                                    THEN get(sessions[sid].pages, o.st.url) ELSE None,
                         fetched |-> fetches]})
                  /\ fetchCount' = IF fetches THEN insert(fetchCount, k, count(k) + 1)
                                   ELSE fetchCount
                  /\ UNCHANGED <<sessions, firstStored, terminated, last>>

\* What a POST to the tool endpoint leaves behind, o being the handler's
\* outcome: its response or, for an open that got past its arguments, the
\* call in flight at the end of its cache snapshot.  cap bounds the opens in
\* flight.
Handled(header, body, o, cap) ==
    LET sid == header_session_id(header)
    IN IF o.kind = "resp"
       THEN LET removed == (DOMAIN sessions) \ (DOMAIN o.store) IN
            /\ sessions' = o.store
            /\ terminated' = terminated \cup removed
            /\ firstStored' = forget(firstStored, removed)
            /\ last' = Completed("post", Some(sid), body, 200, Some(o.resp), None, FALSE, None)
            /\ UNCHANGED <<inflight, fetchCount>>
       ELSE LET k == <<sid, o.st.url>>
                fetches == (o.st.content = None)
            IN /\ BagCardinality(inflight) < cap
               /\ fetches => count(k) < MaxFetch
               /\ inflight' = inflight (+) SetToBag({
                     [sid |-> sid, body |-> body, url |-> o.st.url, loc |-> o.st.loc,
                      num_lines |-> o.st.num_lines, content |-> o.st.content,
                      cached |-> IF sid \in DOMAIN sessions
                                 THEN get(sessions[sid].pages, o.st.url) ELSE None,
                      fetched |-> fetches]})
               /\ fetchCount' = IF fetches THEN insert(fetchCount, k, count(k) + 1) ELSE fetchCount
               /\ UNCHANGED <<sessions, firstStored, terminated, last>>

\* One POST on the tool endpoint: the handler's outcome for the store as it
\* is, left behind as Handled describes.
McpRequest(header, body, net, cap) ==
    Handled(header, body, handle_mcp_request(header, body, sessions, net), cap)

\* a fetch whose failure still registers the session: the failed open leaves
\* a fresh entry for an id the store did not hold
FetchReturns_creates_entry(page) ==
    \E r \in BagToSet(inflight) :
        /\ r.content = None
        /\ LET res == fetch_page_content(r.url, page) IN
           IF res.r = "err"
           THEN /\ inflight' = inflight (-) SetToBag({r})
                /\ last' = Completed("post", Some(r.sid), r.body, 200,
                                     Some(tool_response(r.body.id, res)),
                                     r.cached, r.fetched, None)
                /\ sessions' = IF r.sid \in DOMAIN sessions THEN sessions
                               ELSE insert(sessions, r.sid, BrowserSession_default)
                /\ UNCHANGED <<fetchCount, firstStored, terminated>>
           ELSE /\ inflight' = (inflight (-) SetToBag({r}))
                                (+) SetToBag({[r EXCEPT !.content = Some(res.v)]})
                /\ UNCHANGED <<sessions, fetchCount, firstStored, terminated, last>>

\* The Content Fetcher returns to an open that awaits it (lines 606 / 609): an
\* error ends the call ("?"), a page goes on to the write.
FetchReturns(page) ==
    \E r \in BagToSet(inflight) :
        /\ r.content = None
        /\ LET res == fetch_page_content(r.url, page) IN
           IF res.r = "err"
           THEN /\ inflight' = inflight (-) SetToBag({r})
                /\ last' = Completed("post", Some(r.sid), r.body, 200,
                                     Some(tool_response(r.body.id, res)),
                                     r.cached, r.fetched, None)
                /\ UNCHANGED <<sessions, fetchCount, firstStored, terminated>>
           ELSE /\ inflight' = (inflight (-) SetToBag({r}))
                                (+) SetToBag({[r EXCEPT !.content = Some(res.v)]})
                /\ UNCHANGED <<sessions, fetchCount, firstStored, terminated, last>>

\* an open that checks the location before it writes: an Invalid-Location
\* failure leaves the store as it was
OpenFinish_check_first(build) ==
    \E r \in BagToSet(inflight) :
        /\ r.content # None
        /\ LET content == r.content[1]
               k == <<r.sid, r.url>>
               res == open_paginate(r.url, content, r.loc, r.num_lines, build)
               rejected == res.r = "err"
           IN /\ sessions' = IF rejected THEN sessions
                             ELSE open_update_session(sessions, r.sid, r.url, content)
              /\ firstStored' = IF k \in DOMAIN firstStored \/ rejected THEN firstStored
                                ELSE insert(firstStored, k, content)
              /\ inflight' = inflight (-) SetToBag({r})
              /\ last' = IF res.r = "panic"
                         THEN Completed("post", Some(r.sid), r.body, 0, None,
                                        r.cached, r.fetched, r.content)
                         ELSE Completed("post", Some(r.sid), r.body, 200,
                                        Some(tool_response(r.body.id, res)),
                                        r.cached, r.fetched, r.content)
              /\ UNCHANGED <<fetchCount, terminated>>

\* an open that drops its write when the session it had read the page from
\* is no longer in the store
OpenFinish_drop_orphan(build) ==
    \E r \in BagToSet(inflight) :
        /\ r.content # None
        /\ LET content == r.content[1]
               k == <<r.sid, r.url>>
               res == open_paginate(r.url, content, r.loc, r.num_lines, build)
               orphan == r.cached # None /\ r.sid \notin DOMAIN sessions
           IN /\ sessions' = IF orphan THEN sessions
                             ELSE open_update_session(sessions, r.sid, r.url, content)
              /\ firstStored' = IF k \in DOMAIN firstStored \/ orphan THEN firstStored
                                ELSE insert(firstStored, k, content)
              /\ inflight' = inflight (-) SetToBag({r})
              /\ last' = IF res.r = "panic"
                         THEN Completed("post", Some(r.sid), r.body, 0, None,
                                        r.cached, r.fetched, r.content)
                         ELSE Completed("post", Some(r.sid), r.body, 200,
                                        Some(tool_response(r.body.id, res)),
                                        r.cached, r.fetched, r.content)
              /\ UNCHANGED <<fetchCount, terminated>>

\* lines 612-659: the write under the write lock, then the pagination and the
\* response; a panic in the pagination ends the task without a response.
OpenFinish(build) ==
    \E r \in BagToSet(inflight) :
        /\ r.content # None
        /\ LET content == r.content[1]
               k == <<r.sid, r.url>>
               res == open_paginate(r.url, content, r.loc, r.num_lines, build)
           IN /\ sessions' = open_update_session(sessions, r.sid, r.url, content)
              /\ firstStored' = IF k \in DOMAIN firstStored THEN firstStored
                                ELSE insert(firstStored, k, content)
              /\ inflight' = inflight (-) SetToBag({r})
              /\ last' = IF res.r = "panic"
                         THEN Completed("post", Some(r.sid), r.body, 0, None,
                                        r.cached, r.fetched, r.content)
                         ELSE Completed("post", Some(r.sid), r.body, 200,
                                        Some(tool_response(r.body.id, res)),
                                        r.cached, r.fetched, r.content)
              /\ UNCHANGED <<fetchCount, terminated>>

\* One DELETE on a session path.
SessionDelete(session_id) ==
    LET o == handle_session_delete(session_id, sessions)
        removed == (DOMAIN sessions) \ (DOMAIN o.store)
    IN /\ sessions' = o.store
       /\ terminated' = terminated \cup removed
       /\ firstStored' = forget(firstStored, removed)
       /\ last' = Completed("delete", Some(session_id), EmptyBody, o.status, None, None, FALSE, None)
       /\ UNCHANGED <<inflight, fetchCount>>

(***************************************************************************)
(* Inputs                                                                  *)
(***************************************************************************)
S1 == <<"S", "1">>
UrlA == <<"a">>
UrlB == <<"b">>
Doc1 == <<"x">>
Doc2 == <<"x", NL, "F", "o", NL>>
Builds == {"debug", "release"}

ToolCall(id, name, arguments) ==
    Envelope(JStr("2.0"), id, JStr("tools/call"), Params(JStr(name), Some(arguments), JAbsent))
OpenCall(id, url, loc, num_lines) ==
    ToolCall(id, "open", Args(url, loc, num_lines, JAbsent, JAbsent, JAbsent))
FindCall(id, pattern, url) ==
    ToolCall(id, "find", Args(url, JAbsent, JAbsent, JAbsent, JAbsent, pattern))
SearchCall(id, query, topn) ==
    ToolCall(id, "search", Args(JAbsent, JAbsent, JAbsent, query, topn, JAbsent))
TerminateCall(id, sessionId) ==
    Envelope(JStr("2.0"), id, JStr("session/terminate"), Params(JAbsent, None, sessionId))

(***************************************************************************)
(* Spec: the session store under concurrent open, find, session/terminate  *)
(* and DELETE requests of one session (two urls, two page contents)        *)
(***************************************************************************)
NoNet == Ok(0)
Pattern == <<"f", "o">>
StoreHeaders == {None}
StoreBodies ==
    {OpenCall(JInt(7), JStr(u), JAbsent, JAbsent) : u \in {UrlA, UrlB}}
    \cup {FindCall(JInt(7), JStr(Pattern), u) : u \in {JAbsent, JStr(UrlA)}}
    \cup {TerminateCall(JInt(7), JStr(DefaultId))}
StorePages == {Ok(Doc1), Ok(Doc2)}
StoreDeleteIds == {DefaultId}

Next ==
    \/ \E h \in StoreHeaders, b \in StoreBodies : McpRequest(h, b, NoNet, MaxInflight)
    \/ \E page \in StorePages : FetchReturns(page)
    \/ \E build \in Builds : OpenFinish(build)
    \/ \E id \in StoreDeleteIds : SessionDelete(id)

Spec == Init /\ [][Next]_vars

(***************************************************************************)
(* SpecRace: concurrent opens of one url in one session, with and without  *)
(* loc / num_lines, opens without a url, a Content Fetcher that may fail   *)
(* in each of its ways or serve a changed page, find, session/terminate    *)
(* and DELETE                                                              *)
(***************************************************************************)
RaceBodies ==
    {OpenCall(JInt(7), JStr(UrlA), JAbsent, JAbsent),
     OpenCall(JInt(7), JStr(UrlA), JInt(1), JInt(1)),
     OpenCall(JInt(7), JAbsent, JAbsent, JAbsent),
     OpenCall(JInt(7), JStr(Blank), JAbsent, JAbsent),
     FindCall(JInt(7), JStr(Pattern), JAbsent),
     TerminateCall(JInt(7), JStr(DefaultId))}
\* lines 662-685: the failures of the Content Fetcher
FetchErrors == {"NetworkError", "NotFound", "HttpStatus", "ReadError", "ConversionError"}
RacePages == {Ok(Doc1), Ok(Doc2)} \cup {Err(e) : e \in FetchErrors}

NextRace ==
    \/ \E b \in RaceBodies : McpRequest(None, b, NoNet, MaxInflight)
    \/ \E page \in RacePages : FetchReturns(page)
    \/ \E build \in Builds : OpenFinish(build)
    \/ SessionDelete(DefaultId)

SpecRace == Init /\ [][NextRace]_vars

(***************************************************************************)
(* SpecOpen: the pagination of open, one call at a time, over every loc    *)
(* and num_lines up to MaxLoc and pages of 0, 1 and 3 lines                *)
(***************************************************************************)
Doc0 == << >>
Doc3 == <<"l", NL, "F", "o", NL, "l">>
OpenDocs == {Doc0, Doc1, Doc3}
OpenLocs == {JAbsent, JInt(-1)} \cup {JInt(n) : n \in 0..MaxLoc}
OpenNumLines == {JAbsent} \cup {JInt(n) : n \in (0 - MaxLoc)..MaxLoc}
OpenBodies == {OpenCall(JInt(7), JStr(UrlA), loc, n) : loc \in OpenLocs, n \in OpenNumLines}

NextOpen ==
    \/ \E b \in OpenBodies : McpRequest(None, b, NoNet, 1)
    \/ \E d \in OpenDocs : FetchReturns(Ok(d))
    \/ \E build \in Builds : OpenFinish(build)

SpecOpen == Init /\ [][NextOpen]_vars

(***************************************************************************)
(* SpecProto: the dispatcher over malformed, incomplete and complete       *)
(* envelopes, every method, and every shape of the tools' arguments        *)
(***************************************************************************)
Versions == {JAbsent, JOther, JStr("1.0"), JStr("2.0")}
Ids == {JAbsent, JInt(7)}
Methods == {"initialize", "tools/list", "tools/call", "ping", "session/terminate",
            "notifications/cancelled", "bogus", "PING"}
Strs(good) == {JAbsent, JOther, JStr(<< >>), JStr(Blank), JStr(good)}
Topns == {JAbsent, JOther} \cup {JInt(n) : n \in {-5, -1, 0, 1, 2, 10, 49, 50, 51, 1000}}
SearchArgs ==
    {Args(JAbsent, JAbsent, JAbsent, q, JAbsent, JAbsent) : q \in Strs(<<"q">>)}
    \cup {Args(JAbsent, JAbsent, JAbsent, JStr(<<"q">>), t, JAbsent) : t \in Topns}
OpenArgs == {Args(u, JAbsent, JAbsent, JAbsent, JAbsent, JAbsent) : u \in Strs(UrlA)}
FindArgs ==
    {Args(u, JAbsent, JAbsent, JAbsent, JAbsent, p) :
        u \in {JAbsent, JOther, JStr(UrlA), JStr(UrlB)}, p \in Strs(Pattern)}
\* envelopes with and without their required fields, no params
EnvelopeBodies ==
    {EmptyBody, MalformedBody}
    \cup {Envelope(v, i, m, JAbsent) : v \in Versions, i \in Ids,
                                       m \in {JAbsent, JOther} \cup {JStr(x) : x \in Methods}}
\* tools/call and session/terminate with every shape of params
ParamBodies ==
    {Envelope(JStr("2.0"), JInt(7), JStr("tools/call"), p) :
        p \in {JOther, Params(JAbsent, None, JAbsent), Params(JOther, None, JAbsent),
               Params(JStr("nonexistent"), Some(NoArgs), JAbsent),
               Params(JStr("Open"),
                      Some(Args(JStr(UrlA), JAbsent, JAbsent, JStr(<<"q">>), JAbsent, JStr(Pattern))),
                      JAbsent)}
              \cup {Params(JStr(n), None, JAbsent) : n \in TOOLS}}
    \cup {Envelope(JStr("2.0"), JInt(7), JStr("session/terminate"), p) :
        p \in {JOther, Params(JAbsent, None, JAbsent), Params(JAbsent, None, JOther),
               Params(JAbsent, None, JStr(DefaultId))}}
    \cup {Envelope(v, JInt(7), JStr("session/terminate"), Params(JAbsent, None, JStr(DefaultId))) :
        v \in {JAbsent, JStr("1.0")}}
    \cup {Envelope(v, JInt(7), JStr("tools/call"), Params(JStr("open"), Some(a), JAbsent)) :
        v \in {JAbsent, JStr("1.0")}, a \in {Args(JStr(UrlA), JAbsent, JAbsent, JAbsent, JAbsent, JAbsent)}}
ProtoBodies ==
    EnvelopeBodies \cup ParamBodies
    \cup {ToolCall(i, "open", a) : i \in Ids, a \in OpenArgs}
    \cup {ToolCall(JInt(7), "find", a) : a \in FindArgs}
SearchBodies == {ToolCall(JInt(7), "search", a) : a \in SearchArgs}
ProtoNets == {Err("SearchNetworkError"), Err("SearchStatus"), Ok(0), Ok(60)}

NextProto ==
    \/ \E b \in ProtoBodies : McpRequest(None, b, NoNet, 1)
    \/ \E b \in SearchBodies, net \in ProtoNets : McpRequest(None, b, net, 1)
    \/ \E page \in {Ok(Doc2), Err("NotFound")} : FetchReturns(page)
    \/ \E build \in Builds : OpenFinish(build)

SpecProto == Init /\ [][NextProto]_vars

(***************************************************************************)
(* What the claims read off the request completed last                     *)
(***************************************************************************)
\* the arguments object of a tools/call body
LastArgs == unwrap_or(last.body.params.arguments, NoArgs)
\* last is a tools/call of this tool that got past the envelope and the name
LastIsTool(name) ==
    /\ last.op = "post"
    /\ last.body.raw = "json"
    /\ last.body.jsonrpc = JStr("2.0")
    /\ last.body.method = JStr("tools/call")
    /\ last.body.params # JAbsent
    /\ last.body.params.t = "obj"
    /\ last.body.params.name = JStr(name)
LastSid == last.sid[1]
\* the url an open or find names; asked only when it is a string
LastUrl == LastArgs.url.s
\* the error of the response, None when there is none
LastError == IF last.resp = None THEN None ELSE last.resp[1].error
LastErrorMsg == IF LastError = None THEN "" ELSE LastError[1].data.msg
\* the text result of the response; asked only when the tool succeeded
LastSucceeded == last.resp # None /\ last.resp[1].result # None
LastText == last.resp[1].result[1].content

(***************************************************************************)
(* C1.  In every reachable state, under every interleaving of open, find,  *)
(* session/terminate and DELETE, each session of the store has current_url *)
(* and current_content both absent or both present, and when present       *)
(* current_url is a key of pages and pages[current_url] is                 *)
(* current_content: the entry the most recent open wrote.                  *)
(***************************************************************************)
C1_CurrentIsCachedPage ==
    /\ \A s \in DOMAIN sessions :
          LET b == sessions[s] IN
          /\ (b.current_url = None) <=> (b.current_content = None)
          /\ b.current_url # None =>
                /\ b.current_url[1] \in DOMAIN b.pages
                /\ b.pages[b.current_url[1]] = b.current_content[1]
    /\ (LastIsTool("open") /\ last.content # None) =>
          /\ LastSid \in DOMAIN sessions
          /\ sessions[LastSid].current_url = Some(LastUrl)
          /\ sessions[LastSid].current_content = last.content
          /\ sessions[LastSid].pages[LastUrl] = last.content[1]

\* a session re-created after a termination holds two pages with different
\* contents, one of them current, while an open is in flight
C1_Witness ==
    /\ DefaultId \in DOMAIN sessions
    /\ DefaultId \in terminated
    /\ DOMAIN sessions[DefaultId].pages = {UrlA, UrlB}
    /\ sessions[DefaultId].pages[UrlA] # sessions[DefaultId].pages[UrlB]
    /\ sessions[DefaultId].current_url = Some(UrlA)
    /\ inflight # EmptyBag
    /\ LastIsTool("find")

(***************************************************************************)
(* C2.  Once an open(u) has stored u in session S's pages, every later     *)
(* open(u) on S before S is terminated does not invoke the Content         *)
(* Fetcher (the fetch count of (S, u) stays 1) and paginates over exactly  *)
(* the content the first open stored, whatever loc / num_lines it gives.   *)
(***************************************************************************)
\* last is an open that found its url cached in a session never terminated
C2_LaterOpen ==
    /\ LastIsTool("open")
    /\ last.cached # None
    /\ LastSid \notin terminated

\* the claim as stated
C2_Original ==
    C2_LaterOpen =>
        /\ ~last.fetched
        /\ count(<<LastSid, LastUrl>>) = 1
        /\ last.content = Some(firstStored[<<LastSid, LastUrl>>])

\* as amended: the later open does not fetch and paginates over the page
\* cached at its snapshot; that is the first open's page as long as the one
\* fetch of the first open is the only one made for (S, u)
C2_CachedOpenDoesNotFetch ==
    C2_LaterOpen =>
        /\ ~last.fetched
        /\ last.content = last.cached
        /\ count(<<LastSid, LastUrl>>) = 1 =>
              last.content = Some(firstStored[<<LastSid, LastUrl>>])

\* a later open with loc and num_lines, answered from the page of the one fetch
C2_Witness ==
    /\ C2_LaterOpen
    /\ LastArgs.loc = JInt(1)
    /\ LastArgs.num_lines = JInt(1)
    /\ count(<<LastSid, LastUrl>>) = 1
    /\ last.content = Some(Doc2)
    /\ LastSucceeded

(***************************************************************************)
(* C3.  A find without url on a session id that was never opened (the      *)
(* store holds no entry for it) fails with the "no page open" error, the   *)
(* same error as find on a session whose current page is unset.            *)
(***************************************************************************)
\* last is a find with a usable pattern and no url argument
LastIsFindCurrent ==
    /\ LastIsTool("find")
    /\ as_str(LastArgs.pattern) # None
    /\ ~trim_is_empty(LastArgs.pattern.s)
    /\ as_str(LastArgs.url) = None

C3_FreshSessionFindIsNoPageOpen ==
    (LastIsFindCurrent /\ LastSid \notin DOMAIN sessions /\ LastSid \notin terminated) =>
        LastErrorMsg = "NoPageOpen"

(***************************************************************************)
(* C4.  After session/terminate of S, S behaves as a fresh empty session:  *)
(* it has no current page and no cached page, a following find without    *)
(* url on S fails with "no page open", and a following open(u) of a url    *)
(* cached before invokes the Content Fetcher again.                        *)
(***************************************************************************)
\* last is a session/terminate naming session id s
LastIsTerminateOf(s) ==
    /\ last.op = "post"
    /\ last.body.raw = "json"
    /\ last.body.jsonrpc = JStr("2.0")
    /\ last.body.method = JStr("session/terminate")
    /\ last.body.params # JAbsent
    /\ last.body.params.t = "obj"
    /\ last.body.params.sessionId = JStr(s)

C4_TerminatedSessionIsFresh ==
    /\ \A s \in terminated : LastIsTerminateOf(s) => s \notin DOMAIN sessions
    /\ (LastIsFindCurrent /\ LastSid \in terminated /\ LastSid \notin DOMAIN sessions) =>
          LastErrorMsg = "NoPageOpen"
    /\ (LastIsTool("open") /\ LastSid \in terminated /\ last.cached = None
            /\ as_str(LastArgs.url) # None /\ ~trim_is_empty(LastArgs.url.s)) =>
          last.fetched

(***************************************************************************)
(* C5.  A session is created on first reference: the first open or the     *)
(* first find against an id that is not in the store creates its entry     *)
(* (Empty for find); an entry, once created, is removed only by            *)
(* session/terminate or by the DELETE endpoint.                            *)
(***************************************************************************)
C5_Step ==
    /\ (last' # last /\ LastIsFindCurrent') => LastSid' \in DOMAIN sessions'
    /\ (last' # last /\ LastIsTool("open")' /\ last'.content # None) =>
          LastSid' \in DOMAIN sessions'
    /\ \A s \in DOMAIN sessions :
          s \notin DOMAIN sessions' => (LastIsTerminateOf(s)' \/ last'.op = "delete")

C5_LazyCreation == [][C5_Step]_vars

(***************************************************************************)
(* C6.  An open fails with the Invalid-Location error if and only if       *)
(* loc >= total_lines and total_lines > 0, total_lines being the line      *)
(* count of the resolved content, and the error then reports               *)
(* total_lines - 1 as the maximum; in particular loc = 0 on content of     *)
(* zero lines is not an Invalid-Location failure.                          *)
(***************************************************************************)
\* last is an open that resolved its content and answered
LastIsPaginatedOpen == LastIsTool("open") /\ last.content # None /\ last.resp # None
LastLoc == unwrap_or(as_u64(LastArgs.loc), 0)
LastNumLines == unwrap_or(as_i64(LastArgs.num_lines), -1)
LastLines == lines(last.content[1])
LastTotal == Len(LastLines)

C6_InvalidLocationIff ==
    LastIsPaginatedOpen =>
        /\ (LastErrorMsg = "InvalidLocation") <=> (LastLoc >= LastTotal /\ LastTotal > 0)
        /\ (LastErrorMsg = "InvalidLocation") => LastError[1].data.maximum = LastTotal - 1

(***************************************************************************)
(* C7.  Every successful open with 0 <= loc < total_lines lists exactly    *)
(* the lines loc .. end-1, each labelled with its absolute 0-based index,  *)
(* where end = total_lines if num_lines = -1 and                           *)
(* end = min(loc + num_lines, total_lines) otherwise; a truncation notice  *)
(* is present if and only if end < total_lines, and it names end - 1 and   *)
(* total_lines - 1 (also when num_lines = 0 and no line is shown).         *)
(***************************************************************************)
ClaimedEnd ==
    IF LastNumLines = -1 THEN LastTotal ELSE min(LastLoc + LastNumLines, LastTotal)

C7_PaginationRange ==
    (LastIsPaginatedOpen /\ LastSucceeded /\ LastLoc < LastTotal) =>
        /\ LastText.shown = [i \in 1..(ClaimedEnd - LastLoc) |->
                               [n |-> LastLoc + (i - 1), line |-> LastLines[LastLoc + i]]]
        /\ (LastText.notice # None) <=> (ClaimedEnd < LastTotal)
        /\ (LastText.notice # None) =>
              LastText.notice[1] = [at |-> ClaimedEnd - 1, of |-> LastTotal - 1]

(***************************************************************************)
(* C8.  search clamps topn to [1, 50]: for every integer topn the caller   *)
(* supplies (0, negative and above 50 included) the limit passed to the    *)
(* Search Provider is min(max(topn, 1), 50), and it is 10 when topn is     *)
(* absent.                                                                 *)
(***************************************************************************)
\* last is a search whose query passed the checks, so that a limit was computed
LastIsSearchWithLimit ==
    /\ LastIsTool("search")
    /\ as_str(LastArgs.query) # None
    /\ ~trim_is_empty(LastArgs.query.s)
\* the limit the search used, carried by its result or by its error
LastLimit == IF LastSucceeded THEN LastText.limit ELSE LastError[1].data.limit

C8_TopnClamped ==
    LastIsSearchWithLimit =>
        /\ LastArgs.topn.t = "int" => LastLimit = min(max(LastArgs.topn.i, 1), 50)
        /\ LastArgs.topn = JAbsent => LastLimit = 10

(***************************************************************************)
(* C9.  Every tool (search, open, find) called through tools/call with its *)
(* required argument (query, url, pattern) absent or not a string fails    *)
(* with the Invalid-Params code -32602; -32603 is used only for other      *)
(* failures of the tool.                                                   *)
(***************************************************************************)
\* last is a tools/call of a known tool whose required argument is missing
\* or is not a string
LastLacksRequired ==
    \/ LastIsTool("search") /\ as_str(LastArgs.query) = None
    \/ LastIsTool("open") /\ as_str(LastArgs.url) = None
    \/ LastIsTool("find") /\ as_str(LastArgs.pattern) = None
LastCode == IF LastError = None THEN 0 ELSE LastError[1].code

C9_MissingArgumentIsInvalidParams ==
    /\ LastLacksRequired => LastCode = -32602
    /\ ((\E name \in TOOLS : LastIsTool(name)) /\ LastCode = -32603) => ~LastLacksRequired

(***************************************************************************)
(* C10.  A payload that is valid JSON but has no jsonrpc field is answered *)
(* with Invalid Request, -32600, as a payload with a version other than    *)
(* "2.0" is; -32700 is returned only for payloads that are not valid JSON. *)
(***************************************************************************)
C10_MissingVersionIsInvalidRequest ==
    last.op = "post" =>
        /\ (last.body.raw = "json" /\ last.body.jsonrpc = JAbsent) => LastCode = -32600
        /\ LastCode = -32700 => last.body.raw = "malformed"

(***************************************************************************)
(* C11.  The dispatcher checks in a fixed order: an empty payload yields   *)
(* -32600, a non-empty payload that is not valid JSON yields -32700, a     *)
(* parsed envelope whose version is not exactly "2.0" yields -32600, and   *)
(* only then is the method routed: a request with a wrong version never    *)
(* reaches a handler, whatever its method, and leaves the session store    *)
(* unchanged.                                                              *)
(***************************************************************************)
\* a step that completes a request: it leaves its outcome in last, and only
\* such a step writes the store
Completes == last' # last \/ sessions' # sessions
\* last is a POST whose envelope deserialized with a version other than "2.0"
LastHasWrongVersion ==
    /\ last.op = "post"
    /\ parse_request(last.body) # None
    /\ last.body.jsonrpc # JStr("2.0")
LastData == LastError[1].data

C11_Order ==
    last.op = "post" =>
        /\ last.body.raw = "empty" => (LastCode = -32600 /\ LastData.msg = "EmptyBody")
        /\ last.body.raw = "malformed" => LastCode = -32700
        /\ LastHasWrongVersion => (LastCode = -32600 /\ LastData.msg = "VersionMustBe2.0")

C11_Step ==
    /\ C11_Order'
    /\ (Completes /\ LastHasWrongVersion') =>
          (sessions' = sessions /\ inflight' = inflight /\ fetchCount' = fetchCount)

Id100 == [i \in 1..100 |-> "s"]
Id101 == [i \in 1..101 |-> "s"]
Wide51 == [i \in 1..51 |-> "é"]
SessHeaders == {None, Some(UnknownId), Some(Id101)}
SessTerminateBodies ==
    {Envelope(JStr("2.0"), JInt(7), JStr("session/terminate"), JAbsent)}
    \cup {TerminateCall(JInt(7), s) :
            s \in {JAbsent, JOther, JStr(<< >>), JStr(DefaultId), JStr(Id101)}}
SessBodies == {OpenCall(JInt(7), JStr(UrlA), JAbsent, JAbsent)} \cup SessTerminateBodies
SessDeleteIds == {<< >>, DefaultId, UnknownId, Id100, Id101, Wide51}

NextSessions ==
    \/ \E h \in SessHeaders, b \in SessBodies : McpRequest(h, b, NoNet, 1)
    \/ FetchReturns(Ok(Doc1))
    \/ \E build \in Builds : OpenFinish(build)
    \/ \E id \in SessDeleteIds : SessionDelete(id)

SpecSessions == Init /\ [][NextSessions]_vars

(***************************************************************************)
(* SpecFind: find over every page of up to MaxFindLines lines drawn from a *)
(* matching line, two lines that do not match, pages of 10 to 13 lines     *)
(* with 10 to 12 matches, and a page of Greek words                        *)
(***************************************************************************)
\* the lines joined by line feeds
RECURSIVE join(_)
join(ls) ==
    IF ls = << >> THEN << >>
    ELSE IF Len(ls) = 1 THEN ls[1]
    ELSE ls[1] \o << NL >> \o join(Tail(ls))
LineKinds == {<<"x">>, <<"a", "F", "o">>, <<"f", "x", "o">>}
SmallDocs == {join(ls) : ls \in UNION {[1..k -> LineKinds] : k \in 0..MaxFindLines}}
ManyDocs ==
    {join([i \in 1..n |-> <<"F", "o">>]) : n \in 10..12}
    \cup {join([i \in 1..13 |-> IF i \in {1, 7} THEN <<"x">> ELSE <<"f", "O">>])}
SigmaDoc == join(<< <<"x">>, <<"Α", "Σ", "Α">>, <<"Α", "Σ">> >>)
FindDocs == SmallDocs \cup ManyDocs \cup {SigmaDoc}
FindBodies ==
    {OpenCall(JInt(7), JStr(UrlA), JAbsent, JAbsent),
     FindCall(JInt(7), JStr(<<"f", "O">>), JAbsent),
     FindCall(JInt(7), JStr(<<"Α", "Σ">>), JAbsent)}

NextFind ==
    \/ \E b \in FindBodies : McpRequest(None, b, NoNet, 1)
    \/ \E d \in FindDocs : FetchReturns(Ok(d))
    \/ \E build \in Builds : OpenFinish(build)

SpecFind == Init /\ [][NextFind]_vars

(***************************************************************************)
(* SpecIsolation: two sessions (the default one and S1) served in turn:    *)
(* opens and finds of two urls, and the requests that only answer          *)
(***************************************************************************)
IsoHeaders == {None, Some(S1)}
IsoToolBodies ==
    {OpenCall(JInt(7), JStr(u), JAbsent, JAbsent) : u \in {UrlA, UrlB}}
    \cup {FindCall(JInt(7), JStr(Pattern), u) : u \in {JAbsent, JStr(UrlA)}}
IsoPlainBodies ==
    {Envelope(JStr("2.0"), JInt(7), JStr(m), JAbsent) :
        m \in {"initialize", "tools/list", "ping", "notifications/cancelled"}}
IsoSearchBodies == {SearchCall(JInt(7), JStr(<<"q">>), JAbsent)}
IsoNets == {Err("SearchNetworkError"), Ok(60)}

NextIsolation ==
    \/ \E h \in IsoHeaders, b \in IsoToolBodies \cup IsoPlainBodies : McpRequest(h, b, NoNet, 1)
    \/ \E h \in IsoHeaders, b \in IsoSearchBodies, net \in IsoNets : McpRequest(h, b, net, 1)
    \/ \E page \in StorePages : FetchReturns(page)
    \/ \E build \in Builds : OpenFinish(build)

SpecIsolation == Init /\ [][NextIsolation]_vars

KnownMethods == {"initialize", "tools/list", "tools/call", "ping", "session/terminate",
                 "notifications/cancelled"}
\* last is a POST of version "2.0" whose method is not a known one
LastIsUnknownMethod ==
    /\ last.op = "post"
    /\ parse_request(last.body) # None
    /\ last.body.jsonrpc = JStr("2.0")
    /\ last.body.method.s \notin KnownMethods

C12_Step ==
    /\ LastIsUnknownMethod' =>
          /\ LastCode' = -32601
          /\ LastData'.method = last'.body.method.s
          /\ last'.resp[1].result = None
    /\ (Completes /\ LastIsUnknownMethod') =>
          (sessions' = sessions /\ inflight' = inflight /\ fetchCount' = fetchCount)

C12_UnknownMethod == [][C12_Step]_vars

\* an unknown method was refused while the store held a session
C12_Witness ==
    /\ LastIsUnknownMethod
    /\ last.body.method = JStr("PING")
    /\ LastCode = -32601
    /\ DefaultId \in DOMAIN sessions

(***************************************************************************)
(* C13.  tools/call validates the tool name against the registry before    *)
(* execution: for every name other than search, open, find the response    *)
(* has error.code = -32601, no Content Fetcher or Search Provider call is  *)
(* made and the session store is unchanged; missing params or a missing    *)
(* name yield -32602 before the registry check.                            *)
(***************************************************************************)
\* last is a tools/call that reached handle_tools_call
LastIsToolsCall ==
    /\ last.op = "post"
    /\ parse_request(last.body) # None
    /\ last.body.jsonrpc = JStr("2.0")
    /\ last.body.method = JStr("tools/call")
\* the tool name of a tools/call, None when params or the name is missing
LastToolName ==
    IF last.body.params # JAbsent /\ last.body.params.t = "obj"
    THEN as_str(last.body.params.name) ELSE None
LastIsUnknownTool ==
    LastIsToolsCall /\ LastToolName # None /\ LastToolName[1] \notin {"search", "open", "find"}

C13_Step ==
    /\ (LastIsToolsCall' /\ LastToolName' = None) => LastCode' = -32602
    /\ LastIsUnknownTool' =>
          /\ LastCode' = -32601
          /\ LastData'.name = LastToolName'[1]
          /\ "limit" \notin DOMAIN LastData'
    /\ (Completes /\ LastIsUnknownTool') =>
          (sessions' = sessions /\ inflight' = inflight /\ fetchCount' = fetchCount)

C13_RegistryBeforeExecution == [][C13_Step]_vars

\* an unknown tool name carrying a url, a query and a pattern was refused
C13_Witness ==
    /\ LastIsUnknownTool
    /\ LastToolName = Some("Open")
    /\ LastArgs.url = JStr(UrlA)
    /\ LastCode = -32601

(***************************************************************************)
(* C14.  For every request that parses as an envelope, on every path       *)
(* (version error, unknown method, every handler's success and error), the *)
(* response id equals the request id, an absent id included; the response  *)
(* id is absent only when the payload is empty or could not be parsed.     *)
(***************************************************************************)
\* last is a POST whose payload is a JSON object naming a method: an envelope,
\* whatever its version field holds
LastIsEnvelope ==
    /\ last.op = "post"
    /\ last.body.raw = "json"
    /\ as_str(last.body.method) # None

C14_IdEchoed ==
    (LastIsEnvelope /\ last.resp # None) => last.resp[1].id = last.body.id

(***************************************************************************)
(* C15.  Every POST to the tool endpoint ends with a well-formed envelope  *)
(* carrying exactly one of result or error, returned with a success        *)
(* transport status, for every payload and every combination of tool       *)
(* arguments (open with any integer loc and num_lines included); no        *)
(* request ends without an envelope or with a transport-level error.       *)
(***************************************************************************)
C15_AlwaysAnEnvelope ==
    last.op = "post" =>
        /\ last.status = 200
        /\ last.resp # None
        /\ (last.resp[1].result = None) # (last.resp[1].error = None)

(***************************************************************************)
(* C16.  session/terminate removes exactly the session named by            *)
(* params.sessionId ("unknown" when params or sessionId is absent) and     *)
(* leaves every other session unchanged, the session named by the          *)
(* request's session header included; it reports success whether or not    *)
(* the id existed, and terminating an id that is not in the store leaves   *)
(* the store unchanged.                                                    *)
(***************************************************************************)
\* last is a session/terminate that reached its handler, with params.sessionId
\* a string or absent
LastIsTerminate ==
    /\ last.op = "post"
    /\ parse_request(last.body) # None
    /\ last.body.jsonrpc = JStr("2.0")
    /\ last.body.method = JStr("session/terminate")
    /\ (last.body.params = JAbsent
        \/ (last.body.params.t = "obj" /\ last.body.params.sessionId.t \in {"absent", "str"}))
\* the session the claim says it names
LastTerminateTarget ==
    IF last.body.params = JAbsent \/ last.body.params.sessionId = JAbsent
    THEN UnknownId ELSE last.body.params.sessionId.s

C16_Step ==
    (Completes /\ LastIsTerminate') =>
        /\ sessions' = remove(sessions, LastTerminateTarget')
        /\ \A s \in DOMAIN sessions : s # LastTerminateTarget' => (s \in DOMAIN sessions' /\ sessions'[s] = sessions[s])
        /\ LastSucceeded'
        /\ last'.resp[1].result[1].sessionId = LastTerminateTarget'

C16_TerminateRemovesExactlyTheNamed == [][C16_Step]_vars

\* a session/terminate without params, sent under the header of session Id101,
\* has removed "unknown" and left the sessions "default" and Id101 in place
C16_Witness ==
    /\ LastIsTerminate
    /\ last.body.params = JAbsent
    /\ last.sid = Some(Id101)
    /\ UnknownId \in terminated
    /\ UnknownId \notin DOMAIN sessions
    /\ {DefaultId, Id101} \subseteq DOMAIN sessions

(***************************************************************************)
(* C17.  Every explicit termination request that removes a session (the    *)
(* session/terminate method as well as the DELETE endpoint) targets a      *)
(* session id that is a non-empty string of at most 100 characters; a      *)
(* termination request with an empty or longer id removes nothing.         *)
(***************************************************************************)
C17_Step ==
    \A s \in (DOMAIN sessions) \ (DOMAIN sessions') : Len(s) >= 1 /\ Len(s) <= 100

C17_RemovedIdsAreValid == [][C17_Step]_vars

(***************************************************************************)
(* C18.  The DELETE session endpoint rejects with a transport-level client *)
(* error, leaving the store unchanged, exactly when the path session id is *)
(* empty or longer than 100 characters; otherwise the named session is     *)
(* absent from the store afterwards, every other session is unchanged and  *)
(* a status payload is returned even if the session did not exist.         *)
(***************************************************************************)
C18_Step ==
    (Completes /\ last'.op = "delete") =>
        LET id == last'.sid[1] IN
        IF Len(id) = 0 \/ Len(id) > 100
        THEN last'.status = 400 /\ sessions' = sessions
        ELSE last'.status = 200 /\ sessions' = remove(sessions, id)

C18_DeleteValidatesId == [][C18_Step]_vars

(***************************************************************************)
(* C19.  find with an explicit url u searches the cached content pages[u]  *)
(* of the caller's session regardless of which page is current, and fails  *)
(* with the Page-Not-Found ("open it first") error whenever u is not a key *)
(* of that session's pages, also when the session has no entry in the      *)
(* store at all.                                                           *)
(***************************************************************************)
\* last is a find with a usable pattern and a url argument
LastIsFindByUrl ==
    /\ LastIsTool("find")
    /\ as_str(LastArgs.pattern) # None
    /\ ~trim_is_empty(LastArgs.pattern.s)
    /\ as_str(LastArgs.url) # None
\* the number of lines of content that hold pattern, case-insensitively
MatchCount(content, pattern) ==
    LET ls == lines(content) IN
    Cardinality({i \in 1..Len(ls) : contains(to_lowercase(ls[i]), to_lowercase(pattern))})
\* the answer of last is the answer of a search of content, named url
LastAnswersSearchOf(content, url) ==
    /\ LastSucceeded
    /\ IF MatchCount(content, LastArgs.pattern.s) = 0
       THEN LastText.text = "NoMatches"
       ELSE /\ LastText.text = "Found"
            /\ LastText.url = url
            /\ LastText.total = MatchCount(content, LastArgs.pattern.s)

C19_FindByUrl ==
    LastIsFindByUrl =>
        IF LastSid \in DOMAIN sessions /\ LastUrl \in DOMAIN sessions[LastSid].pages
        THEN LastAnswersSearchOf(sessions[LastSid].pages[LastUrl], LastUrl)
        ELSE LastErrorMsg = "PageNotFound"

(***************************************************************************)
(* C20.  After any open(u) on session S that resolves content (from the    *)
(* cache or from a successful fetch), S is in state Open(u): current_url   *)
(* = u and u is a key of pages, whatever the state before; re-opening an   *)
(* already cached u while another page is current switches the current     *)
(* page to u, so a following find without url searches u.                  *)
(***************************************************************************)
\* last is an open that resolved its content
LastIsResolvedOpen == LastIsTool("open") /\ last.content # None

C20_Step ==
    /\ LastIsResolvedOpen' =>
          /\ LastSid' \in DOMAIN sessions'
          /\ sessions'[LastSid'].current_url = Some(LastUrl')
          /\ sessions'[LastSid'].current_content = last'.content
          /\ LastUrl' \in DOMAIN sessions'[LastSid'].pages
          /\ sessions'[LastSid'].pages[LastUrl'] = last'.content[1]
    /\ (Completes /\ LastIsResolvedOpen /\ LastIsFindCurrent' /\ LastSid' = LastSid) =>
          \E u \in {LastUrl} : \E c \in {last.content[1]} : LastAnswersSearchOf(c, u)'

C20_OpenMakesCurrent == [][C20_Step]_vars

\* a cached url was re-opened in a session that also holds another page with
\* another content
C20_Witness ==
    /\ LastIsResolvedOpen
    /\ last.cached # None
    /\ LastUrl = UrlA
    /\ UrlB \in DOMAIN sessions[LastSid].pages
    /\ sessions[LastSid].pages[UrlB] # sessions[LastSid].pages[UrlA]
    /\ sessions[LastSid].current_url = Some(UrlA)

(***************************************************************************)
(* C21.  Two concurrent opens of the same url in the same session, both    *)
(* started while the url is not cached, each invoke the Content Fetcher    *)
(* (fetch count 2, no single-flight deduplication) and each write their    *)
(* result; after both complete, pages[url] and current_content hold the    *)
(* content written by the later write.                                     *)
(***************************************************************************)
\* the opens in flight on session sid for url that missed the cache
MissedInFlight(sid, url) ==
    {r \in BagToSet(inflight) : r.sid = sid /\ r.url = url /\ r.cached = None}
\* how many of them there are, copies counted
MissedInFlightCount(sid, url) ==
    BagCardinality([r \in MissedInFlight(sid, url) |-> CopiesIn(r, inflight)])

C21_Step ==
    /\ \A r \in BagToSet(inflight') :
          r.cached = None =>
             /\ r.fetched
             /\ count(<<r.sid, r.url>>)' >= MissedInFlightCount(r.sid, r.url)'
    /\ (Completes /\ LastIsResolvedOpen' /\ last'.cached = None) =>
          /\ last'.fetched
          /\ sessions'[LastSid'].pages[LastUrl'] = last'.content[1]
          /\ sessions'[LastSid'].current_content = last'.content

C21_BothFetchLastWriteWins == [][C21_Step]_vars

\* two opens missed the cache and fetched; the one completing later fetched a
\* content other than the one stored first and has replaced it
C21_Witness ==
    /\ LastIsResolvedOpen
    /\ last.cached = None
    /\ last.fetched
    /\ LastSid \notin terminated
    /\ count(<<LastSid, LastUrl>>) = 2
    /\ firstStored[<<LastSid, LastUrl>>] # last.content[1]
    /\ sessions[LastSid].pages[LastUrl] = last.content[1]
    /\ sessions[LastSid].current_content = last.content

(***************************************************************************)
(* C22.  For every line index i of the searched content whose line         *)
(* contains the pattern as a case-insensitive substring, find produces a   *)
(* context window of exactly the lines max(0, i-2) .. min(total_lines,     *)
(* i+3)-1, all numbered with their absolute index and only line i marked;  *)
(* lines that do not contain the pattern produce no match.                 *)
(***************************************************************************)
\* simple case folding of a character: the two cases of a letter, and the two
\* lower-case forms of sigma, fold to one character
CaseFold(c) ==
    IF c \in {"F", "f"} THEN "f" ELSE IF c \in {"O", "o"} THEN "o"
    ELSE IF c \in {"Α", "α"} THEN "α" ELSE IF c \in {"Σ", "σ", "ς"} THEN "σ" ELSE c
\* pattern occurs in line when case is ignored
IsCaseInsensitiveSubstring(pattern, line) ==
    \E k \in 0..(Len(line) - Len(pattern)) :
        \A j \in 1..Len(pattern) : CaseFold(line[k + j]) = CaseFold(pattern[j])
\* the 0-based indices of the lines of ls that contain pattern
MatchingLines(ls, pattern) ==
    {i \in 0..(Len(ls) - 1) : IsCaseInsensitiveSubstring(pattern, ls[i + 1])}
\* the window the claim gives to a match at line i
ClaimedWindow(ls, i) ==
    LET lo == max(0, i - 2)
        hi == min(Len(ls), i + 3)
    IN [k \in 1..(hi - lo) |->
           [n |-> lo + (k - 1), line |-> ls[lo + k], marked |-> (lo + (k - 1) = i)]]
\* last is a find without url that found a page to search: the current page
LastIsFindOnCurrent ==
    /\ LastIsFindCurrent
    /\ LastSid \in DOMAIN sessions
    /\ sessions[LastSid].current_content # None
LastSearched == lines(sessions[LastSid].current_content[1])

C22_ContextWindows ==
    LastIsFindOnCurrent =>
        LET ls == LastSearched
            M == MatchingLines(ls, LastArgs.pattern.s)
        IN /\ LastSucceeded
           /\ IF M = {} THEN LastText.text = "NoMatches"
              ELSE /\ LastText.text = "Found"
                   /\ \A k \in 1..Len(LastText.shown) : LastText.shown[k].line_num \in M
                   /\ \A i \in M :
                         Cardinality({j \in M : j < i}) < 10 =>
                            \E k \in 1..Len(LastText.shown) :
                               /\ LastText.shown[k].line_num = i
                               /\ LastText.shown[k].context = ClaimedWindow(ls, i)

(***************************************************************************)
(* C23.  find renders the first min(m, 10) matches in ascending line       *)
(* order, where m is the total number of matching lines; a trailing        *)
(* summary is present if and only if m > 10 and it reports m - 10          *)
(* suppressed matches; m = 0 yields a success result (a "no matches"       *)
(* message), not an error.                                                 *)
(***************************************************************************)
C23_FirstTenMatches ==
    LastIsFindOnCurrent =>
        LET M == MatchingLines(LastSearched, LastArgs.pattern.s)
            m == Cardinality(M)
        IN /\ LastSucceeded
           /\ IF m = 0 THEN LastText.text = "NoMatches"
              ELSE /\ LastText.text = "Found"
                   /\ LastText.total = m
                   /\ Len(LastText.shown) = min(m, 10)
                   /\ \A k \in 1..Len(LastText.shown) :
                         /\ LastText.shown[k].line_num \in M
                         /\ Cardinality({j \in M : j < LastText.shown[k].line_num}) = k - 1
                   /\ LastText.more = IF m > 10 THEN Some(m - 10) ELSE None

(***************************************************************************)
(* C24.  An open that fails with Invalid-Location has nevertheless already *)
(* set current_url, current_content and pages[u] for its session, creating *)
(* the session when it did not exist: the write precedes the location      *)
(* check.                                                                  *)
(***************************************************************************)
LastIsRejectedOpen == LastIsTool("open") /\ LastErrorMsg = "InvalidLocation"

C24_Step ==
    (Completes /\ LastIsRejectedOpen') =>
        /\ last'.content # None
        /\ LastSid' \in DOMAIN sessions'
        /\ sessions'[LastSid'].current_url = Some(LastUrl')
        /\ sessions'[LastSid'].current_content = last'.content
        /\ get(sessions'[LastSid'].pages, LastUrl') = last'.content

C24_RejectedOpenHasWritten == [][C24_Step]_vars

\* the first open of a session, fetched, is rejected for its location and
\* the session exists
C24_Witness ==
    /\ LastIsRejectedOpen
    /\ last.fetched
    /\ last.cached = None
    /\ count(<<LastSid, LastUrl>>) = 1
    /\ LastSid \in DOMAIN sessions
    /\ DOMAIN sessions[LastSid].pages = {LastUrl}

(***************************************************************************)
(* C25.  An open whose url is missing or empty, or whose fetch fails       *)
(* (network error, 404, non-success status, conversion error), leaves the  *)
(* session store exactly unchanged: no session entry is created for an     *)
(* unseen id, and an existing session keeps its current_url,               *)
(* current_content and pages.                                              *)
(***************************************************************************)
\* last is an open that ended before it had a page: its url was missing or
\* blank, or its fetch failed
LastIsFailedOpen ==
    /\ LastIsTool("open")
    /\ LastErrorMsg \in {"MissingParameter", "UrlRequired"} \cup FetchErrors

C25_Step == (Completes /\ LastIsFailedOpen') => sessions' = sessions

C25_FailedOpenLeavesStore == [][C25_Step]_vars

\* a fetch answered with 404 for an id the store has never held
C25_Witness ==
    /\ LastIsFailedOpen
    /\ LastErrorMsg = "NotFound"
    /\ LastSid \notin DOMAIN sessions
    /\ LastSid \notin terminated

(***************************************************************************)
(* C26.  An open on session S that is in flight (has taken its cache       *)
(* snapshot or is awaiting its fetch) while session/terminate or DELETE    *)
(* removes S re-creates S when it completes: after the termination has     *)
(* completed and without any request started after it, S exists again with *)
(* the opened url as current page, and, if the open had read the url from  *)
(* the cache before the termination, with the pre-termination cached       *)
(* content written back without a fetch.                                   *)
(*                                                                         *)
(* The completion of an open reads only its own record and the store, so   *)
(* the formulas speak of every open that went past its snapshot and        *)
(* completes while S, removed before, is absent.  C26_Original is the      *)
(* claim as stated.  It fails for an open whose fetch fails: that open     *)
(* completes and S stays absent (C25).  C26_OrphanedOpen is the claim for  *)
(* the opens that obtain a page, with the failed fetch leaving the store   *)
(* as it was.                                                              *)
(***************************************************************************)
\* last is an open that went past its cache snapshot
LastWasInFlight ==
    /\ LastIsTool("open")
    /\ LastErrorMsg \notin {"MissingParameter", "UrlRequired"}

\* the step completes an open on a session that was removed and is absent
CompletesOrphanedOpen ==
    /\ Completes
    /\ LastWasInFlight'
    /\ LastSid' \in terminated
    /\ LastSid' \notin DOMAIN sessions

\* S exists again with the opened url as current page; a page read from the
\* cache before the removal is written back, and no fetch was made for it
Recreated ==
    /\ LastSid \in DOMAIN sessions
    /\ sessions[LastSid].current_url = Some(LastUrl)
    /\ last.cached # None =>
          /\ ~last.fetched
          /\ sessions[LastSid].current_content = last.cached
          /\ get(sessions[LastSid].pages, LastUrl) = last.cached

C26_OriginalStep == CompletesOrphanedOpen => Recreated'

C26_Original == [][C26_OriginalStep]_vars

C26_Step ==
    CompletesOrphanedOpen =>
        /\ fetchCount' = fetchCount
        /\ IF last'.content = None THEN sessions' = sessions ELSE Recreated'

C26_OrphanedOpen == [][C26_Step]_vars

\* S was removed and exists again holding the page an open had read from the
\* cache; the key was fetched once, before the removal, so the session was
\* re-created by an open that took its snapshot before the removal
C26_Witness ==
    /\ LastIsResolvedOpen
    /\ last.cached # None
    /\ ~last.fetched
    /\ LastSid \in terminated
    /\ count(<<LastSid, LastUrl>>) = 1
    /\ Recreated

(***************************************************************************)
(* C27.  The session store lock is never held while an open awaits the     *)
(* Content Fetcher: the read lock is released after the cache snapshot and *)
(* the write lock is taken only after the fetch returns, so while one      *)
(* request's fetch is pending, find, open, session/terminate and DELETE    *)
(* requests of the same or other sessions can run to completion, and every *)
(* request completes once its own fetch/search completes or fails.         *)
(*                                                                         *)
(* Stated on the states in which some open awaits its fetch: a find, a     *)
(* session/terminate and a DELETE, under the session of the pending open   *)
(* and under another one, can each be carried out to their response; every *)
(* open that holds its page can carry out its write and answer; and every  *)
(* outcome of the fetch, a page or a failure, is taken up by the open that *)
(* awaits it, a failure ending that open at once.                          *)
(***************************************************************************)
FetchPending == \E r \in BagToSet(inflight) : r.content = None

\* the request body b under header h can be handled to its response now
CanComplete(h, b) ==
    \E o \in {handle_mcp_request(h, b, sessions, NoNet)} :
    ENABLED (/\ Handled(h, b, o, MaxInflight)
             /\ last'.body = b
             /\ last'.sid = Some(header_session_id(h))
             /\ last'.resp # None)

C27_NoLockAcrossFetch ==
    FetchPending =>
        /\ \A h \in {None, Some(S1)} :
              /\ CanComplete(h, FindCall(JInt(7), JStr(Pattern), JAbsent))
              /\ CanComplete(h, FindCall(JInt(7), JStr(Pattern), JStr(UrlA)))
              /\ CanComplete(h, TerminateCall(JInt(7), JStr(DefaultId)))
              /\ CanComplete(h, TerminateCall(JInt(7), JStr(S1)))
        /\ \A id \in {DefaultId, S1} :
              ENABLED (SessionDelete(id) /\ id \notin DOMAIN sessions')
        /\ \A r \in BagToSet(inflight) :
              IF r.content # None
              THEN \A build \in Builds :
                      ENABLED (/\ OpenFinish(build)
                               /\ inflight' = inflight (-) SetToBag({r})
                               /\ last'.body = r.body)
              ELSE /\ \A e \in FetchErrors :
                         ENABLED (/\ FetchReturns(Err(e))
                                  /\ inflight' = inflight (-) SetToBag({r})
                                  /\ last'.body = r.body
                                  /\ last'.resp # None)
                   /\ \A d \in {Doc1, Doc2} :
                         ENABLED (/\ FetchReturns(Ok(d))
                                  /\ inflight' = (inflight (-) SetToBag({r}))
                                        (+) SetToBag({[r EXCEPT !.content = Some(d)]}))

\* an open served from the cache has completed on the session and url for
\* which another open, begun before the page was cached, still awaits its
\* fetch
C27_Witness ==
    /\ LastIsResolvedOpen
    /\ last.cached # None
    /\ ~last.fetched
    /\ \E r \in BagToSet(inflight) :
          r.content = None /\ r.sid = LastSid /\ r.url = LastUrl

(***************************************************************************)
(* C28.  Sessions are isolated: a tools/call (open or find) carried out    *)
(* under session id S reads and writes only the store entry of S; for      *)
(* every other session id T, T's existence, current_url, current_content   *)
(* and pages are unchanged, and a url cached in S is not a cache hit for   *)
(* open nor findable by find in T.                                         *)
(*                                                                         *)
(* For every step that completes an open or a find under S: the entries of *)
(* the other sessions are the same before and after; an open is served     *)
(* without a fetch exactly when S itself held the url at the snapshot, and *)
(* then with the page S held; a find by url succeeds only if S itself      *)
(* holds the url, and a find on the current page only if S has one.        *)
(***************************************************************************)
LastIsOpenOrFind == LastIsTool("open") \/ LastIsTool("find")

\* the url a find names is a string
LastFindNamesUrl == LastIsTool("find") /\ as_str(LastArgs.url) # None

C28_Step ==
    (Completes /\ LastIsOpenOrFind') =>
        /\ \A T \in (DOMAIN sessions \cup DOMAIN sessions') \ {LastSid'} :
              /\ T \in DOMAIN sessions
              /\ T \in DOMAIN sessions'
              /\ sessions'[T] = sessions[T]
        /\ LastIsResolvedOpen' =>
              /\ last'.fetched <=> (last'.cached = None)
              /\ last'.cached # None => last'.content = last'.cached
        /\ (LastFindNamesUrl' /\ LastSucceeded') =>
              /\ LastSid' \in DOMAIN sessions
              /\ LastUrl' \in DOMAIN sessions[LastSid'].pages
        /\ (LastIsTool("find")' /\ ~LastFindNamesUrl' /\ LastSucceeded') =>
              /\ LastSid' \in DOMAIN sessions
              /\ sessions[LastSid'].current_content # None

C28_SessionsIsolated == [][C28_Step]_vars

\* an open under S1 fetched a url that the default session holds with another
\* content, and the default session still holds its own
C28_Witness ==
    /\ LastIsResolvedOpen
    /\ LastSid = S1
    /\ last.fetched
    /\ last.cached = None
    /\ DefaultId \in DOMAIN sessions
    /\ LastUrl \in DOMAIN sessions[DefaultId].pages
    /\ sessions[DefaultId].pages[LastUrl] # last.content[1]
    /\ sessions[S1].pages[LastUrl] = last.content[1]

(***************************************************************************)
(* C29.  find, search, initialize, tools/list, ping and                    *)
(* notifications/cancelled never modify the session store: after any of    *)
(* them, successful or failed, the set of sessions and every session's     *)
(* current_url, current_content and pages are the same as before; in       *)
(* particular find with an explicit url does not change the current page.  *)
(***************************************************************************)
ReadOnlyMethods == {"initialize", "tools/list", "ping", "notifications/cancelled"}

LastIsReadOnly ==
    \/ LastIsTool("find")
    \/ LastIsTool("search")
    \/ /\ last.op = "post"
       /\ parse_request(last.body) # None
       /\ last.body.jsonrpc = JStr("2.0")
       /\ last.body.method \in {JStr(m) : m \in ReadOnlyMethods}

C29_Step == (Completes /\ LastIsReadOnly') => sessions' = sessions

C29_ReadOnlyRequests == [][C29_Step]_vars

\* a find by explicit url has searched a page that is not the current page
\* of its session
C29_Witness ==
    /\ LastFindNamesUrl
    /\ LastSucceeded
    /\ LastSid \in DOMAIN sessions
    /\ sessions[LastSid].current_url # None
    /\ sessions[LastSid].current_url # Some(LastUrl)

(***************************************************************************)
(* C30.  For every open that passes the location check (loc < total_lines) *)
(* and every integer num_lines, including negative values other than -1,   *)
(* the computed line range satisfies loc <= end <= total_lines, with       *)
(* loc + num_lines evaluated in unsigned machine-word arithmetic after     *)
(* casting num_lines to an unsigned word; so the slice of lines loc..end   *)
(* is always well defined and the call returns a result.                   *)
(*                                                                         *)
(* The end of the range is read off the answer: the listing starts at loc  *)
(* and shows end - loc lines.                                              *)
(***************************************************************************)
LastPassesLocationCheck == LastIsResolvedOpen /\ LastLoc < LastTotal

C30_RangeWellDefined ==
    LastPassesLocationCheck =>
        /\ LastSucceeded
        /\ LastText.from = LastLoc
        /\ LastLoc + Len(LastText.shown) <= LastTotal

====
